---- MODULE Spec2Model ----
(***************************************************************************)
(* Model of dmb23/gcp-brownbag-agents.                                     *)
(*                                                                         *)
(*  Spec       GrimaudAgent.run_full_workflow (agents.py): the three-stage *)
(*             pipeline driver, its HTTP client, request budgets and the   *)
(*             artifact files it writes.                                   *)
(*  SpecRetry  get_research_result (main.py): the tenacity retry wrapper   *)
(*             around one agent call with a client scoped per attempt.     *)
(*  SpecFetch  the trending-story fetcher in its two variants,             *)
(*             HackerNewsTool.execute (tools.py) and hacker_news_tool      *)
(*             (main.py).                                                  *)
(***************************************************************************)
EXTENDS Integers, Sequences, FiniteSets, TLC

VARIABLES
    \* ---- GrimaudAgent (agents.py) ----
    request_limit,      \* self.request_limit
    client_id,          \* identity of the object held in self._client
    client_is_closed,   \* self._client.is_closed
    wfPc,               \* position inside run_full_workflow
    stage,              \* the stage run_full_workflow is at (0 outside a run)
    now,                \* the run's datetime.now(), one tick per run
    topic,              \* local `topic` (TopicSelectionResult) or None
    research_result,    \* local `research_result` or None
    markdown_report,    \* local `markdown_report` or None
    report_file,        \* value returned by run_full_workflow or None
    files,              \* the output directory: file name -> contents
    invoked,            \* stage methods called so far in this run, in order
    running,            \* stages whose agent.run is in progress
    agentRuns,          \* per stage: calls of agent.run in this run
    agentInput,         \* per stage: the prompt handed to agent.run, or None
    agentClient,        \* per stage: the client in the RunDeps handed over
    budget,             \* per stage: request_limit of the UsageLimits handed over
    requests,           \* model requests made by the agents in this run
    failCause,          \* why the run failed: None, "agent", "save", "format"
    \* ---- get_research_result (main.py) ----
    rPc,                \* position inside the retrying call
    rAttempt,           \* tenacity's attempt number
    rClient,            \* the client of the attempt in progress, or None
    rOpen,              \* clients created by attempts and not closed
    rCreated,           \* number of clients created so far
    rOutcomes,          \* outcome of every finished attempt, in order
    rResult,            \* value returned to the caller, or None
    rRaised,            \* failure raised to the caller, or None
    rSlept,             \* seconds slept between attempts
    rGoal,              \* search_goal of the attempt's RunDeps, or None
    rTurns,             \* agent turns taken in the attempt in progress
    rExposed,           \* tools offered to the model in the latest turn
    \* ---- story fetcher (tools.py / main.py) ----
    variant,            \* "tools": HackerNewsTool.execute, "main": hacker_news_tool
    num_entries,        \* argument num_entries
    feed,               \* ids the feed index holds, in feed order
    fPc,                \* position inside the call
    indexOutcome,       \* outcome of the feed-index GET
    stories_ids,        \* local `stories_ids`
    tasks,              \* per position of stories_ids: state of its task
    outOfOrder,         \* a fetch settled while one earlier in the feed was pending
    requested,          \* detail GETs issued on the client
    stories,            \* value returned by the call, or None
    \* ---- story fetcher, counted (feeds of any length) ----
    cNum,               \* argument num_entries
    cFeedLen,           \* number of ids the feed index holds
    cPc,                \* position inside the call
    cFetches,           \* detail GETs issued
    cReturned,          \* length of the list returned
    \* ---- keyword search (tools.py / main.py) ----
    sVariant,           \* "tools": DuckDuckGoSearchTool.execute, "main": __call__
    sQuery,             \* argument query
    sMaxResults,        \* self.max_results, None or Some(n)
    sPc,                \* position inside the call
    sResults,           \* local `results`: what client.text returned, or None
    sOut,               \* how the call ended: None, <<"return", v>>, <<"raise", e>>
    \* ---- webpage fetch (tools.py / main.py) ----
    wVariant,           \* "tools": WebpageTool.execute, "main": visit_webpage_tool
    wUrl,               \* argument url
    wPc,                \* position inside the call
    wGets,              \* GET requests issued on ctx.deps.client
    wFetch,             \* outcome of the GET, or None
    wOut,               \* how the call ended: None, <<"return", v>>, <<"raise", e>>
    \* ---- output assembly (main.py __main__) ----
    research,           \* the ResearchResult being assembled
    aPc,                \* position inside the assembly
    result_md,          \* local `result_md`, a sequence of text pieces
    \* ---- research_agent run with any search_goal (main.py) ----
    gCalls              \* tools the model called so far, in order

wfVars == <<request_limit, client_id, client_is_closed, wfPc, stage, now, topic,
            research_result, markdown_report, report_file, files, invoked,
            running, agentRuns, agentInput, agentClient, budget, requests,
            failCause>>
rVars == <<rPc, rAttempt, rClient, rOpen, rCreated, rOutcomes, rResult, rRaised,
           rSlept, rGoal, rTurns, rExposed>>
fVars == <<variant, num_entries, feed, fPc, indexOutcome, stories_ids, tasks,
           outOfOrder, requested, stories>>
cVars == <<cNum, cFeedLen, cPc, cFetches, cReturned>>
sVars == <<sVariant, sQuery, sMaxResults, sPc, sResults, sOut>>
wVars == <<wVariant, wUrl, wPc, wGets, wFetch, wOut>>
aVars == <<research, aPc, result_md>>
gVars == <<gCalls>>
\* The variables of the tool calls and of the output assembly.
toolVars == <<cVars, sVars, wVars, aVars, gVars>>
vars == <<wfVars, rVars, fVars, toolVars>>

\* Optional values: None, or Some(x) holding x.
None == <<>>
Some(x) == <<x>>
The(o) == o[1]

Min(a, b) == IF a <= b THEN a ELSE b
Max(a, b) == IF a >= b THEN a ELSE b

(***************************************************************************)
(* Bounds of the model.                                                    *)
(***************************************************************************)
MaxRequestLimit == 4    \* request_limit ranges over 0..MaxRequestLimit
MaxRuns == 2            \* run_full_workflow calls on one GrimaudAgent
MaxFeed == 3            \* ids in the feed index
MaxTurns == 2           \* agent turns modelled per attempt of get_research_result
MaxDropped == 2         \* detail fetches that fail in the counted story fetcher
MaxHits == 2            \* hits the search provider returns for one query
MaxLinks == 2           \* images, and references, of one ResearchResult

(***************************************************************************)
(* GrimaudAgent: data                                                      *)
(***************************************************************************)
SELECT_TOPIC == 1
RESEARCH_TOPIC == 2
GENERATE_REPORT == 3
Stages == {SELECT_TOPIC, RESEARCH_TOPIC, GENERATE_REPORT}

\* Topic names the selector agent may return, as character sequences.
TopicNames ==
    { <<"d", "b", "t">>,
      <<"a", " ", "b">>,
      <<"d", "a", "t", "a", " ", "l", "a", "k", "e", "s", "!">> }

\* Values of TopicSelectionResult the selector agent may return.
TopicSelectionResults ==
    { [selected_topic |-> [topic |-> t, description |-> "desc", source_url |-> "url"]]
        : t \in TopicNames }

\* Values of EnhancedResearchResult the researcher agent may return.
EnhancedResearchResults == { [topic |-> "r1"], [topic |-> "r2"] }

\* Markdown strings the report agent may return.
MarkdownReports == { "# report A", "# report B" }

\* pydantic's model_dump_json: the JSON text of a model value.
model_dump_json(x) == <<"json", x>>

\* Python's s[:n] on a sequence.
Prefix(s, n) == SubSeq(s, 1, Min(Len(s), n))

\* str.replace(' ', '_')
ReplaceSpaces(s) == [i \in 1..Len(s) |-> IF s[i] = " " THEN "_" ELSE s[i]]

\* topic_name[:10].replace(' ', '_')
TopicKey(topic_name) == ReplaceSpaces(Prefix(topic_name, 10))

\* Mutant of FileName: the stage prefix is left out of the name, so the
\* artifacts of one run share a name.
FileName_noPrefix(s, topic_name, t) ==
    [prefix |-> "output", key |-> TopicKey(topic_name), now |-> t, ext |-> "json"]

\* The three file names run_full_workflow builds.
FileName(s, topic_name, t) ==
    [prefix |-> CASE s = SELECT_TOPIC -> "topic_selection"
                  [] s = RESEARCH_TOPIC -> "research_result"
                  [] OTHER -> "markdown_report",
     key |-> TopicKey(topic_name),
     now |-> t,
     ext |-> IF s = GENERATE_REPORT THEN "md" ELSE "json"]

\* Prompt templates: the replacement fields each one holds.
TOPIC_SELECTOR_TASK == [name |-> "TOPIC_SELECTOR_TASK", fields |-> {}]
RESEARCHER_TASK_TEMPLATE ==
    [name |-> "RESEARCHER_TASK_TEMPLATE",
     fields |-> {"topic", "description", "source_url"}]
REPORT_GENERATOR_TASK_TEMPLATE ==
    [name |-> "REPORT_GENERATOR_TASK_TEMPLATE", fields |-> {"research_results"}]

KeyError == <<"KeyError">>
IsKeyError(p) == p[1] = "KeyError"

\* str.format(**kwargs): every replacement field of the template must be a
\* keyword argument, else KeyError; surplus keyword arguments are ignored.
Format(template, kwargs) ==
    IF template.fields \subseteq DOMAIN kwargs
    THEN <<"prompt", template.name, [f \in template.fields |-> kwargs[f]]>>
    ELSE KeyError

\* The prompt each stage method builds before it calls agent.run.
StagePrompt(s) ==
    CASE s = SELECT_TOPIC -> Format(TOPIC_SELECTOR_TASK, <<>>)
      [] s = RESEARCH_TOPIC ->
            Format(RESEARCHER_TASK_TEMPLATE,
                   [topic |-> The(topic).selected_topic.topic,
                    description |-> The(topic).selected_topic.description,
                    source_url |-> The(topic).selected_topic.source_url])
      [] OTHER ->
            Format(REPORT_GENERATOR_TASK_TEMPLATE,
                   [research_result |-> model_dump_json(The(research_result))])

\* The request_limit of the UsageLimits each stage hands to agent.run.
StageBudget(s) ==
    IF s = SELECT_TOPIC THEN request_limit \div 3 ELSE request_limit

\* Whether the stage hands RunDeps(client=self._client) to agent.run.
StageHasDeps(s) == s \in {SELECT_TOPIC, RESEARCH_TOPIC}

\* The tools=[...] the stage's agent is created with.
StageTools(s) ==
    CASE s = SELECT_TOPIC -> {"HackerNewsTool"}
      [] s = RESEARCH_TOPIC -> {"WebpageTool", "DuckDuckGoSearchTool"}
      [] OTHER -> {}

\* The values the stage's agent may return (its output_type).
StageOutputs(s) ==
    CASE s = SELECT_TOPIC -> TopicSelectionResults
      [] s = RESEARCH_TOPIC -> EnhancedResearchResults
      [] OTHER -> MarkdownReports

\* What save_output is given for the stage's result.
StageFileContents(s) ==
    CASE s = SELECT_TOPIC -> model_dump_json(The(topic))
      [] s = RESEARCH_TOPIC -> model_dump_json(The(research_result))
      [] OTHER -> <<"text", The(markdown_report)>>

NoStage == [s \in Stages |-> None]

(***************************************************************************)
(* GrimaudAgent: operations                                                *)
(***************************************************************************)
\* GrimaudAgent.__init__ : the constructor creates the first client.
InitWorkflow ==
    /\ request_limit \in 0..MaxRequestLimit
    /\ client_id = 1
    /\ client_is_closed = FALSE
    /\ wfPc = "idle"
    /\ stage = 0
    /\ now = 0
    /\ topic = None
    /\ research_result = None
    /\ markdown_report = None
    /\ report_file = None
    /\ files = <<>>
    /\ invoked = <<>>
    /\ running = {}
    /\ agentRuns = [s \in Stages |-> 0]
    /\ agentInput = NoStage
    /\ agentClient = NoStage
    /\ budget = NoStage
    /\ requests = 0
    /\ failCause = "none"

\* _start_client: a closed client is replaced by a new one.
StartClient ==
    IF client_is_closed
    THEN client_id' = client_id + 1 /\ client_is_closed' = FALSE
    ELSE UNCHANGED <<client_id, client_is_closed>>

\* _close_client: an open client is closed.
CloseClient ==
    /\ client_is_closed' = TRUE
    /\ UNCHANGED client_id

\* run_full_workflow is called: _start_client() and now = datetime.now().
StartWorkflow ==
    /\ wfPc \in {"idle", "done", "failed"}
    /\ now < MaxRuns
    /\ StartClient
    /\ now' = now + 1
    /\ wfPc' = "begin"
    /\ stage' = SELECT_TOPIC
    /\ topic' = None
    /\ research_result' = None
    /\ markdown_report' = None
    /\ report_file' = None
    /\ invoked' = <<>>
    /\ running' = {}
    /\ agentRuns' = [s \in Stages |-> 0]
    /\ agentInput' = NoStage
    /\ agentClient' = NoStage
    /\ budget' = NoStage
    /\ requests' = 0
    /\ failCause' = "none"
    /\ UNCHANGED <<request_limit, files>>
    /\ UNCHANGED <<rVars, fVars, toolVars>>

\* Mutant of OnAgentFailure: the failure is caught and the stage is run again.
OnAgentFailure_retry ==
    /\ wfPc' = "begin"
    /\ failCause' = "agent"
    /\ UNCHANGED stage

\* Where run_full_workflow goes when the stage's agent call raised.
OnAgentFailure ==
    /\ wfPc' = "failed"
    /\ failCause' = "agent"
    /\ UNCHANGED stage

\* select_topic / research_topic / generate_report is called: it builds its
\* prompt and awaits agent.run(prompt, deps, usage_limits).
StageBegin ==
    /\ wfPc = "begin"
    /\ invoked' = Append(invoked, stage)
    /\ IF IsKeyError(StagePrompt(stage))
       THEN /\ wfPc' = "failed"
            /\ failCause' = "format"
            /\ UNCHANGED <<running, agentRuns, agentInput, agentClient, budget>>
       ELSE /\ wfPc' = "running"
            /\ running' = running \cup {stage}
            /\ agentRuns' = [agentRuns EXCEPT ![stage] = @ + 1]
            /\ agentInput' = [agentInput EXCEPT ![stage] = Some(StagePrompt(stage))]
            /\ agentClient' = [agentClient EXCEPT ![stage] =
                                  IF StageHasDeps(stage) THEN Some(client_id) ELSE None]
            /\ budget' = [budget EXCEPT ![stage] = Some(StageBudget(stage))]
            /\ UNCHANGED failCause
    /\ UNCHANGED <<request_limit, client_id, client_is_closed, stage, now, topic,
                   research_result, markdown_report, report_file, files, requests>>
    /\ UNCHANGED <<rVars, fVars, toolVars>>

\* agent.run ends. The agent made n model requests, never more than its
\* request_limit; it returns an output of its output_type after at least one
\* request, or raises (usage limit exceeded, model error, output retries
\* exhausted).
AgentEnd ==
    /\ wfPc = "running"
    /\ running' = running \ {stage}
    /\ \E n \in 0..The(budget[stage]) :
         /\ requests' = requests + n
         /\ \/ /\ n >= 1
               /\ \E out \in StageOutputs(stage) :
                    /\ topic' = IF stage = SELECT_TOPIC THEN Some(out) ELSE topic
                    /\ research_result' =
                          IF stage = RESEARCH_TOPIC THEN Some(out) ELSE research_result
                    /\ markdown_report' =
                          IF stage = GENERATE_REPORT THEN Some(out) ELSE markdown_report
               /\ wfPc' = "save"
               /\ UNCHANGED <<stage, failCause>>
            \/ /\ OnAgentFailure
               /\ UNCHANGED <<topic, research_result, markdown_report>>
    /\ UNCHANGED <<request_limit, client_id, client_is_closed, now, report_file,
                   files, invoked, agentRuns, agentInput, agentClient, budget>>
    /\ UNCHANGED <<rVars, fVars, toolVars>>

\* Mutant of WriteText: nothing reaches the disk.
WriteText_dropped(fs, name, contents) == fs

\* Path.write_text: the file holds exactly the new contents afterwards.
WriteText(fs, name, contents) ==
    [n \in DOMAIN fs \cup {name} |-> IF n = name THEN contents ELSE fs[n]]

\* Mutant of SaveOutput: _close_client() follows every save_output, not
\* only the last one.
SaveOutput_closesClient ==
    /\ wfPc = "save"
    /\ LET name == FileName(stage, The(topic).selected_topic.topic, now) IN
       \/ /\ files' = WriteText(files, name, StageFileContents(stage))
          /\ CloseClient
          /\ IF stage = GENERATE_REPORT
             THEN /\ report_file' = Some(name)
                  /\ wfPc' = "done"
                  /\ UNCHANGED stage
             ELSE /\ stage' = stage + 1
                  /\ wfPc' = "begin"
                  /\ UNCHANGED report_file
          /\ UNCHANGED failCause
       \/ /\ wfPc' = "failed"
          /\ failCause' = "save"
          /\ \E created \in BOOLEAN :
               files' = IF created /\ name \notin DOMAIN files
                        THEN WriteText(files, name, <<"truncated">>)
                        ELSE files
          /\ UNCHANGED <<stage, client_id, client_is_closed, report_file>>
    /\ UNCHANGED <<request_limit, now, topic, research_result, markdown_report,
                   invoked, running, agentRuns, agentInput, agentClient, budget,
                   requests>>
    /\ UNCHANGED <<rVars, fVars, toolVars>>

\* save_output(contents, filename) for the stage's result, and what follows it
\* in run_full_workflow: the next stage, or _close_client() and the return.
\* mkdir / write_text may raise OSError, which ends the run: before the file
\* exists, or after write_text created it without its full contents.
SaveOutput ==
    /\ wfPc = "save"
    /\ LET name == FileName(stage, The(topic).selected_topic.topic, now) IN
       \/ /\ files' = WriteText(files, name, StageFileContents(stage))
          /\ IF stage = GENERATE_REPORT
             THEN /\ CloseClient
                  /\ report_file' = Some(name)
                  /\ wfPc' = "done"
                  /\ UNCHANGED stage
             ELSE /\ stage' = stage + 1
                  /\ wfPc' = "begin"
                  /\ UNCHANGED <<client_id, client_is_closed, report_file>>
          /\ UNCHANGED failCause
       \/ /\ wfPc' = "failed"
          /\ failCause' = "save"
          /\ \E created \in BOOLEAN :
               files' = IF created /\ name \notin DOMAIN files
                        THEN WriteText(files, name, <<"truncated">>)
                        ELSE files
          /\ UNCHANGED <<stage, client_id, client_is_closed, report_file>>
    /\ UNCHANGED <<request_limit, now, topic, research_result, markdown_report,
                   invoked, running, agentRuns, agentInput, agentClient, budget,
                   requests>>
    /\ UNCHANGED <<rVars, fVars, toolVars>>

NextWorkflow ==
    \/ StartWorkflow
    \/ StageBegin
    \/ AgentEnd
    \/ SaveOutput

(***************************************************************************)
(* main.py: get_research_result and the research agent's tool gating       *)
(***************************************************************************)
\* Values of ResearchResult the research agent may return.
ResearchResults == { "result A", "result B", "result C" }

\* Failures agent.run may raise: the backend's 529 "Overloaded", a usage or
\* output-validation failure of the agent runtime, an HTTP transport error.
AgentFailures == { "overloaded", "unexpected_model_behavior", "transport_error" }

\* stop_after_attempt(3)
MaxAttempts == 3
\* wait_exponential(min=4): multiplier 1, base 2
WaitMin == 4

\* Mutant of ShouldStop: one attempt too many.
ShouldStop_offByOne(n) == n > MaxAttempts

\* tenacity's stop condition after attempt n failed.
ShouldStop(n) == n >= MaxAttempts

RECURSIVE Pow2(_)
Pow2(n) == IF n <= 0 THEN 1 ELSE 2 * Pow2(n - 1)

\* wait_exponential(min=4) after attempt n: max(min, 2 ** (n - 1)).
Wait(n) == Max(WaitMin, Pow2(n - 1))

\* Mutant of select_hn: the goal is compared with another sentinel than the
\* one get_research_result passes.
select_hn_otherSentinel(search_goal) == search_goal = "search trending stories"

\* select_hn: the prepare function of the trending-story tool.
select_hn(search_goal) == search_goal = "HN"

\* Mutant of select_search: the keyword search tool is offered whatever the
\* search_goal, as with no prepare function.
select_search_always(search_goal) == TRUE

\* select_search: the prepare function of the keyword search tool.
select_search(search_goal) == search_goal # "HN"

\* The tools research_agent offers to the model in one turn.
ExposedTools(search_goal) ==
    {"visit_webpage_tool"}
        \cup (IF select_search(search_goal) THEN {"DuckDuckGoSearchTool"} ELSE {})
        \cup (IF select_hn(search_goal) THEN {"hacker_news_tool"} ELSE {})

InitRetry ==
    /\ rPc = "idle"
    /\ rAttempt = 0
    /\ rClient = None
    /\ rOpen = {}
    /\ rCreated = 0
    /\ rOutcomes = <<>>
    /\ rResult = None
    /\ rRaised = None
    /\ rSlept = 0
    /\ rGoal = None
    /\ rTurns = 0
    /\ rExposed = {}

\* get_research_result(research_agent) is called: tenacity starts attempt 1.
RetryCall ==
    /\ rPc = "idle"
    /\ rAttempt' = 1
    /\ rPc' = "enter"
    /\ UNCHANGED <<rClient, rOpen, rCreated, rOutcomes, rResult, rRaised, rSlept,
                   rGoal, rTurns, rExposed>>
    /\ UNCHANGED <<wfVars, fVars, toolVars>>

\* Mutant of AttemptBegin: the client is created once, by the first
\* attempt, and every later attempt takes it again.
AttemptBegin_reusesClient ==
    /\ rPc = "enter"
    /\ rCreated' = IF rCreated = 0 THEN 1 ELSE rCreated
    /\ rClient' = Some(rCreated')
    /\ rOpen' = rOpen \cup {rCreated'}
    /\ rGoal' = Some("HN")
    /\ rTurns' = 0
    /\ rExposed' = {}
    /\ rPc' = "running"
    /\ UNCHANGED <<rAttempt, rOutcomes, rResult, rRaised, rSlept>>
    /\ UNCHANGED <<wfVars, fVars, toolVars>>

\* One attempt enters `async with httpx.AsyncClient() as _client`, builds
\* RunDeps(client=_client, search_goal="HN") and awaits research_agent.run.
AttemptBegin ==
    /\ rPc = "enter"
    /\ rCreated' = rCreated + 1
    /\ rClient' = Some(rCreated + 1)
    /\ rOpen' = rOpen \cup {rCreated + 1}
    /\ rGoal' = Some("HN")
    /\ rTurns' = 0
    /\ rExposed' = {}
    /\ rPc' = "running"
    /\ UNCHANGED <<rAttempt, rOutcomes, rResult, rRaised, rSlept>>
    /\ UNCHANGED <<wfVars, fVars, toolVars>>

\* One turn of the agent run: the prepare functions decide the tools offered.
AgentTurn ==
    /\ rPc = "running"
    /\ rTurns < MaxTurns
    /\ rTurns' = rTurns + 1
    /\ rExposed' = ExposedTools(The(rGoal))
    /\ UNCHANGED <<rPc, rAttempt, rClient, rOpen, rCreated, rOutcomes, rResult,
                   rRaised, rSlept, rGoal>>
    /\ UNCHANGED <<wfVars, fVars, toolVars>>

\* Mutant of AfterAsyncWith: the client is closed only when the attempt
\* ends by a return, as with a close() after the agent call.
AfterAsyncWith_noCloseOnError ==
    IF rOutcomes' # <<>> /\ rOutcomes'[Len(rOutcomes')].ok
    THEN rOpen \ {The(rClient)}
    ELSE rOpen

\* The clients open once an attempt has left its `async with` block, by
\* return or by exception: the block closes the attempt's client.
AfterAsyncWith == rOpen \ {The(rClient)}

\* research_agent.run returns: the attempt leaves the `async with` block and
\* get_research_result returns run_result.output.
AttemptSucceeds ==
    /\ rPc = "running"
    /\ \E out \in ResearchResults :
         /\ rOutcomes' = Append(rOutcomes, [ok |-> TRUE, value |-> out])
         /\ rResult' = Some(out)
    /\ rOpen' = AfterAsyncWith
    /\ rClient' = None
    /\ rPc' = "returned"
    /\ UNCHANGED <<rAttempt, rCreated, rRaised, rSlept, rGoal, rTurns, rExposed>>
    /\ UNCHANGED <<wfVars, fVars, toolVars>>

\* research_agent.run raises: the attempt leaves the `async with` block by
\* exception; tenacity stops after attempt 3 and raises RetryError, otherwise
\* it sleeps and starts the next attempt.
AttemptFails ==
    /\ rPc = "running"
    /\ \E e \in AgentFailures :
         /\ rOutcomes' = Append(rOutcomes, [ok |-> FALSE, value |-> e])
         /\ IF ShouldStop(rAttempt)
            THEN /\ rRaised' = Some(<<"RetryError", e>>)
                 /\ rPc' = "raised"
                 /\ UNCHANGED <<rAttempt, rSlept>>
            ELSE /\ rSlept' = rSlept + Wait(rAttempt)
                 /\ rAttempt' = rAttempt + 1
                 /\ rPc' = "enter"
                 /\ UNCHANGED rRaised
    /\ rOpen' = AfterAsyncWith
    /\ rClient' = None
    /\ UNCHANGED <<rCreated, rResult, rGoal, rTurns, rExposed>>
    /\ UNCHANGED <<wfVars, fVars, toolVars>>

NextRetry ==
    \/ RetryCall
    \/ AttemptBegin
    \/ AgentTurn
    \/ AttemptSucceeds
    \/ AttemptFails

(***************************************************************************)
(* The trending-story fetcher: HackerNewsTool.execute (tools.py) and        *)
(* hacker_news_tool (main.py)                                              *)
(***************************************************************************)
\* min(num_entries, 500)
MaxEntries == 500

\* Item ids of the feed.
Ids == 1..MaxFeed

\* Feed indexes: every sequence of distinct ids, up to MaxFeed long.
Feeds ==
    UNION { { f \in [1..n -> Ids] : \A i, j \in 1..n : i # j => f[i] # f[j] }
              : n \in 0..MaxFeed }

\* Values of num_entries the agent may pass: negative, zero, shorter than a
\* feed, and above the ceiling.
NumEntriesValues == {-1, 0, 1, 2, MaxEntries + 1}

\* Python's seq[:n]: a negative n counts from the end.
PySliceStop(len, n) == IF n >= 0 THEN Min(n, len) ELSE Max(len + n, 0)
PySlice(seq, n) == SubSeq(seq, 1, PySliceStop(Len(seq), n))

\* response.json()[:min(num_entries, 500)]
SelectIds(ids, n) == PySlice(ids, Min(n, MaxEntries))

\* The Story the detail endpoint holds for an id.
Story(id) == [title |-> <<"title", id>>, url |-> <<"url", id>>]

\* Outcomes of the GET of one item: a 2xx answer holding a story, a 2xx answer
\* whose body does not validate as a story (null, no url, not JSON), a non-2xx
\* answer whose body is or is not a story, and a connection error.
DetailOutcomes ==
    { "ok_story", "ok_malformed", "status_story", "status_malformed",
      "request_error" }

\* Story.model_validate_json(r.content): does the body validate?
BodyValidates(o) == o \in {"ok_story", "status_story"}

\* _get_story for one id under an outcome of its GET: <<"story", s>>,
\* <<"none">> (the id is dropped) or <<"raise">>.
\* tools.py catches RequestError and HTTPStatusError (raise_for_status) and
\* ValidationError; main.py only catches ValidationError and never looks at
\* the status.
GetStory(v, id, o) ==
    IF v = "tools"
    THEN CASE o = "request_error" -> <<"none">>
           [] o \in {"status_story", "status_malformed"} -> <<"none">>
           [] BodyValidates(o) -> <<"story", Story(id)>>
           [] OTHER -> <<"none">>
    ELSE CASE o = "request_error" -> <<"raise">>
           [] BodyValidates(o) -> <<"story", Story(id)>>
           [] OTHER -> <<"none">>

PendingTask == [state |-> "pending", outcome |-> "none", result |-> <<"none">>]

\* Positions of the tasks in a given state.
TasksIn(st) == { i \in DOMAIN tasks : tasks[i].state = st }

InitFetch ==
    /\ variant \in {"tools", "main"}
    /\ num_entries \in NumEntriesValues
    /\ feed \in Feeds
    /\ fPc = "start"
    /\ indexOutcome = "none"
    /\ stories_ids = <<>>
    /\ tasks = <<>>
    /\ outOfOrder = FALSE
    /\ requested = 0
    /\ stories = None

\* Mutant of OnIndexFailure: neither variant catches the failure.
OnIndexFailure_alwaysRaise == stories' = None /\ fPc' = "raised"

\* What the call does when the feed-index GET fails: tools.py logs and
\* returns [], main.py lets the exception out.
OnIndexFailure ==
    IF variant = "tools"
    THEN stories' = Some(<<>>) /\ fPc' = "returned"
    ELSE stories' = None /\ fPc' = "raised"

\* The call up to the TaskGroup: the feed-index GET, raise_for_status, the
\* slice, and one task per selected id, each starting its detail GET.
FetchIndex ==
    /\ fPc = "start"
    /\ \E o \in {"ok", "request_error", "status_error"} :
         /\ indexOutcome' = o
         /\ IF o = "ok"
            THEN /\ stories_ids' = SelectIds(feed, num_entries)
                 /\ tasks' = [i \in 1..Len(SelectIds(feed, num_entries)) |-> PendingTask]
                 /\ requested' = Len(SelectIds(feed, num_entries))
                 /\ fPc' = "gather"
                 /\ UNCHANGED stories
            ELSE /\ OnIndexFailure
                 /\ UNCHANGED <<stories_ids, tasks, requested>>
    /\ UNCHANGED <<variant, num_entries, feed, outOfOrder>>
    /\ UNCHANGED <<wfVars, rVars, toolVars>>

\* The task of one selected id settles, in any order. A task that raises makes
\* the TaskGroup cancel the tasks still pending.
SettleDetail ==
    /\ fPc = "gather"
    /\ \E i \in TasksIn("pending") : \E o \in DetailOutcomes :
         LET r == GetStory(variant, stories_ids[i], o) IN
         /\ tasks' =
              IF r[1] = "raise"
              THEN [j \in DOMAIN tasks |->
                      IF j = i THEN [state |-> "raised", outcome |-> o, result |-> r]
                      ELSE IF tasks[j].state = "pending"
                           THEN [tasks[j] EXCEPT !.state = "cancelled"]
                           ELSE tasks[j]]
              ELSE [tasks EXCEPT ![i] = [state |-> "done", outcome |-> o, result |-> r]]
         /\ outOfOrder' = (outOfOrder \/ \E j \in TasksIn("pending") : j < i)
    /\ UNCHANGED <<variant, num_entries, feed, fPc, indexOutcome, stories_ids,
                   requested, stories>>
    /\ UNCHANGED <<wfVars, rVars, toolVars>>

\* [t.result() for t in tasks] then [s for s in stories if s]: the stories of
\* the tasks that returned one, in task order.
RECURSIVE CollectStories(_, _)
CollectStories(ts, i) ==
    IF i > Len(ts) THEN <<>>
    ELSE IF ts[i].result[1] = "story"
         THEN <<ts[i].result[2]>> \o CollectStories(ts, i + 1)
         ELSE CollectStories(ts, i + 1)

\* Mutant of Join: the block ends as soon as the call looks at the tasks,
\* settled or not, and returns the stories there are.
Join_early ==
    /\ fPc = "gather"
    /\ IF TasksIn("raised") # {}
       THEN fPc' = "raised" /\ UNCHANGED stories
       ELSE fPc' = "returned" /\ stories' = Some(CollectStories(tasks, 1))
    /\ UNCHANGED <<variant, num_entries, feed, indexOutcome, stories_ids, tasks,
                   outOfOrder, requested>>
    /\ UNCHANGED <<wfVars, rVars, toolVars>>

\* The TaskGroup block ends once no task is pending: it raises the tasks'
\* exceptions as a group if there is one, else the call returns the stories.
Join ==
    /\ fPc = "gather"
    /\ TasksIn("pending") = {}
    /\ IF TasksIn("raised") # {}
       THEN fPc' = "raised" /\ UNCHANGED stories
       ELSE fPc' = "returned" /\ stories' = Some(CollectStories(tasks, 1))
    /\ UNCHANGED <<variant, num_entries, feed, indexOutcome, stories_ids, tasks,
                   outOfOrder, requested>>
    /\ UNCHANGED <<wfVars, rVars, toolVars>>

NextFetch ==
    \/ FetchIndex
    \/ SettleDetail
    \/ Join

(***************************************************************************)
(* The story fetcher counted: the same slice on feeds of any length, with   *)
(* the ids left out and only their number kept                             *)
(***************************************************************************)
\* len(response.json()[:min(num_entries, 500)]) for a feed of `len` ids.
SelectCount(len, n) == PySliceStop(len, Min(n, MaxEntries))

\* Values of num_entries: negative, zero, small, around and above the ceiling.
CountNumEntries == {-2, -1, 0, 1, MaxEntries - 1, MaxEntries, MaxEntries + 1, 2 * MaxEntries}

\* Feed lengths: short, around and above the ceiling.
FeedLengths == {0, 1, MaxEntries - 1, MaxEntries, MaxEntries + 1, MaxEntries + 2, MaxEntries + 100}

InitCount ==
    /\ cNum \in CountNumEntries
    /\ cFeedLen \in FeedLengths
    /\ cPc = "start"
    /\ cFetches = 0
    /\ cReturned = 0

\* The index fetch succeeds and one task per selected id starts its GET.
CountFetch ==
    /\ cPc = "start"
    /\ cFetches' = SelectCount(cFeedLen, cNum)
    /\ cPc' = "gather"
    /\ UNCHANGED <<cNum, cFeedLen, cReturned>>
    /\ UNCHANGED <<wfVars, rVars, fVars, sVars, wVars, aVars, gVars>>

\* Every task has settled: the stories of those that resolved are returned.
CountReturn ==
    /\ cPc = "gather"
    /\ \E dropped \in 0..Min(cFetches, MaxDropped) : cReturned' = cFetches - dropped
    /\ cPc' = "returned"
    /\ UNCHANGED <<cNum, cFeedLen, cFetches>>
    /\ UNCHANGED <<wfVars, rVars, fVars, sVars, wVars, aVars, gVars>>

NextCount ==
    \/ CountFetch
    \/ CountReturn

(***************************************************************************)
(* Keyword search: DuckDuckGoSearchTool.execute (tools.py) and              *)
(* DuckDuckGoSearchTool.__call__ (main.py)                                 *)
(***************************************************************************)
\* Search hits as the provider returns them: dicts with title, href, body.
Hit(i) == [title |-> <<"title", i>>, href |-> <<"href", i>>, body |-> <<"body", i>>]
HitPool == { Hit(1), Hit(2), Hit(3) }

\* Result lists of the provider: every list of up to MaxHits hits.
HitLists == UNION { [1..n -> HitPool] : n \in 0..MaxHits }

Queries == { "dbt", "no such thing" }

\* client.text(query, max_results=...): the lists the provider may answer
\* with; max_results, when set, caps the length.
ProviderLists(max_results) ==
    IF max_results = None THEN HitLists
    ELSE { l \in HitLists : Len(l) <= The(max_results) }

\* TypeAdapter(list[DuckDuckGoResult]).validate_python: the list itself when
\* every entry has the three keys, else a ValidationError.
validate_python(results) ==
    IF \A i \in DOMAIN results : DOMAIN results[i] = {"title", "href", "body"}
    THEN <<"return", results>>
    ELSE <<"raise", "ValidationError">>

\* Mutant of SearchOutcome: the check for an empty list is missing.
SearchOutcome_noEmptyCheck(results) == validate_python(results)

\* What the call does with the provider's list: RuntimeError for an empty
\* one, else the validated list.
SearchOutcome(results) ==
    IF Len(results) = 0
    THEN <<"raise", "RuntimeError: No search results found.">>
    ELSE validate_python(results)

InitSearch ==
    /\ sVariant \in {"tools", "main"}
    /\ sQuery \in Queries
    /\ sMaxResults \in {None, Some(1), Some(MaxHits)}
    /\ sPc = "called"
    /\ sResults = None
    /\ sOut = None

\* functools.partial(self.client.text, max_results=...) is handed to
\* anyio.to_thread.run_sync and the call awaits it.
SearchOffload ==
    /\ sPc = "called"
    /\ sPc' = "in_thread"
    /\ UNCHANGED <<sVariant, sQuery, sMaxResults, sResults, sOut>>
    /\ UNCHANGED <<wfVars, rVars, fVars, cVars, wVars, aVars, gVars>>

\* The worker thread ends: the provider answered with a list, which the call
\* checks and validates, or it raised, which the call lets out.
SearchEnd ==
    /\ sPc = "in_thread"
    /\ \/ \E results \in ProviderLists(sMaxResults) :
            /\ sResults' = Some(results)
            /\ sOut' = SearchOutcome(results)
       \/ /\ sResults' = None
          /\ sOut' = <<"raise", "DuckDuckGoSearchException">>
    /\ sPc' = "done"
    /\ UNCHANGED <<sVariant, sQuery, sMaxResults>>
    /\ UNCHANGED <<wfVars, rVars, fVars, cVars, wVars, aVars, gVars>>

NextSearch ==
    \/ SearchOffload
    \/ SearchEnd

(***************************************************************************)
(* Webpage fetch: WebpageTool.execute (tools.py) and visit_webpage_tool     *)
(* (main.py)                                                               *)
(***************************************************************************)
\* URLs as character sequences: ".pdf" endings in several letter cases, a
\* PDF behind a query string, a page, and names shorter than the suffix.
Urls ==
    { <<"x", ".", "p", "d", "f">>,
      <<"x", ".", "P", "D", "F">>,
      <<"x", ".", "P", "d", "f">>,
      <<".", "p", "d", "f">>,
      <<"x", ".", "p", "d", "f", "?">>,
      <<"x", ".", "h", "t", "m">>,
      <<"p", "d", "f">> }

\* str.lower() on the characters that occur.
LowerChar(c) ==
    CASE c = "P" -> "p"
      [] c = "D" -> "d"
      [] c = "F" -> "f"
      [] OTHER -> c
Lower(str) == [i \in 1..Len(str) |-> LowerChar(str[i])]

\* str.endswith(suffix)
EndsWith(str, suffix) ==
    /\ Len(str) >= Len(suffix)
    /\ SubSeq(str, Len(str) - Len(suffix) + 1, Len(str)) = suffix

\* url.lower().endswith(".pdf")
IsPdfUrl(url) == EndsWith(Lower(url), <<".", "p", "d", "f">>)

\* Mutant of RejectsPdf: the comparison is case-sensitive.
RejectsPdf_caseSensitive(v, url) ==
    v = "tools" /\ EndsWith(url, <<".", "p", "d", "f">>)

\* Whether the call turns the URL down before any request: WebpageTool.execute
\* does for PDF URLs, visit_webpage_tool has no such check.
RejectsPdf(v, url) == v = "tools" /\ IsPdfUrl(url)

\* Pages by the text markdownify makes of them, as pieces of text.
Pages ==
    { <<"a">>,
      <<"\n", "a", "\n", "\n", "\n", "b", "\n">>,
      <<"a", "\n", "\n", "\n", "\n", "b", "\n", "\n", "c">>,
      <<" ", "\n">> }

IsSpace(c) == c \in {" ", "\n"}

\* str.strip()
RECURSIVE LStrip(_)
LStrip(t) == IF t # <<>> /\ IsSpace(Head(t)) THEN LStrip(Tail(t)) ELSE t
RECURSIVE RStrip(_)
RStrip(t) ==
    IF t # <<>> /\ IsSpace(t[Len(t)]) THEN RStrip(SubSeq(t, 1, Len(t) - 1)) ELSE t
Strip(t) == RStrip(LStrip(t))

\* re.sub(r"\n{3,}", "\n\n", text): `run` counts the line breaks just copied.
RECURSIVE CollapseFrom(_, _)
CollapseFrom(t, run) ==
    IF t = <<>> THEN <<>>
    ELSE IF Head(t) = "\n"
         THEN IF run >= 2 THEN CollapseFrom(Tail(t), run)
              ELSE <<"\n">> \o CollapseFrom(Tail(t), run + 1)
         ELSE <<Head(t)>> \o CollapseFrom(Tail(t), 0)
CollapseBreaks(t) == CollapseFrom(t, 0)

\* Outcomes of `client.get(url)`, `raise_for_status()` and the conversion:
\* a 2xx answer with a page, a RequestError, a non-2xx status, and any other
\* exception (httpx.InvalidURL, a failure inside markdownify).
FetchOutcomes ==
    { [kind |-> "page", detail |-> p] : p \in Pages }
        \cup { [kind |-> "request_error", detail |-> <<"ConnectError">>],
               [kind |-> "status_error", detail |-> <<"404">>],
               [kind |-> "status_error", detail |-> <<"500">>],
               [kind |-> "other_error", detail |-> <<"InvalidURL">>] }

PdfRejection == <<"return", <<"WebpageTool cannot be used to read PDF files!">>>>

\* Mutant of WebpageOutcome: the handler for the status error is missing in
\* both variants and nothing broader catches it.
WebpageOutcome_statusEscapes(v, f) ==
    CASE f.kind = "page" -> <<"return", CollapseBreaks(Strip(f.detail))>>
      [] f.kind = "status_error" -> <<"raise", <<"HTTPStatusError">> \o f.detail>>
      [] OTHER -> <<"return", <<"An unexpected error occurred: ">> \o f.detail>>

\* The try block and its except clauses: the page's text, or the message of
\* the clause that catches the failure.
WebpageOutcome(v, f) ==
    CASE f.kind = "page" -> <<"return", CollapseBreaks(Strip(f.detail))>>
      [] f.kind = "request_error" ->
            IF v = "tools"
            THEN <<"return", <<"An error occurred while requesting ">> \o f.detail>>
            ELSE <<"return", <<"Error fetching the webpage: ">> \o f.detail>>
      [] f.kind = "status_error" ->
            IF v = "tools"
            THEN <<"return", <<"Error response ">> \o f.detail>>
            ELSE <<"return", <<"Error fetching the webpage: ">> \o f.detail>>
      [] OTHER -> <<"return", <<"An unexpected error occurred: ">> \o f.detail>>

InitWebpage ==
    /\ wVariant \in {"tools", "main"}
    /\ wUrl \in Urls
    /\ wPc = "called"
    /\ wGets = 0
    /\ wFetch = None
    /\ wOut = None

\* The call up to its first await: the PDF check where there is one, else the
\* GET on ctx.deps.client.
WebpageCall ==
    /\ wPc = "called"
    /\ IF RejectsPdf(wVariant, wUrl)
       THEN /\ wOut' = PdfRejection
            /\ wPc' = "done"
            /\ UNCHANGED wGets
       ELSE /\ wGets' = wGets + 1
            /\ wPc' = "requesting"
            /\ UNCHANGED wOut
    /\ UNCHANGED <<wVariant, wUrl, wFetch>>
    /\ UNCHANGED <<wfVars, rVars, fVars, cVars, sVars, aVars, gVars>>

\* The GET ends and the rest of the try block runs.
WebpageEnd ==
    /\ wPc = "requesting"
    /\ \E f \in FetchOutcomes :
         /\ wFetch' = Some(f)
         /\ wOut' = WebpageOutcome(wVariant, f)
    /\ wPc' = "done"
    /\ UNCHANGED <<wVariant, wUrl, wGets>>
    /\ UNCHANGED <<wfVars, rVars, fVars, cVars, sVars, aVars, gVars>>

NextWebpage ==
    \/ WebpageCall
    \/ WebpageEnd

(***************************************************************************)
(* Output assembly: the final Markdown document of main.py                 *)
(***************************************************************************)
\* ImageLink and ReferenceLink records a ResearchResult may hold.
ImageLinks ==
    { [description |-> "Fig1", url |-> "http://x/f.png"],
      [description |-> "Fig2", url |-> "http://x/g.png"] }
ReferenceLinks ==
    { [description |-> "Src", url |-> "http://y"],
      [description |-> "Doc", url |-> "http://z"] }

\* Values of ResearchResult handed to the assembly.
AssemblyInputs ==
    { [full_text |-> t, images |-> i, references |-> r] :
        t \in {"Body", "Other body"},
        i \in UNION { [1..n -> ImageLinks] : n \in 0..MaxLinks },
        r \in UNION { [1..n -> ReferenceLinks] : n \in 0..MaxLinks } }

\* Text is a sequence of pieces; a line break is the piece "\n".
\* research_result.full_text + "\n\n"
TextStart(r) == <<r.full_text, "\n", "\n">>

\* Mutant of ImageEmbed: the line break after the embed is missing.
ImageEmbed_noBreak(img) == <<"![", img.description, "](", img.url, ")">>

\* f"![{_img.description}]({_img.url})\n"
ImageEmbed(img) == <<"![", img.description, "](", img.url, ")", "\n">>

\* "\n## References:\n\n"
ReferencesHeading == <<"\n", "## References:", "\n", "\n">>

\* f"- [{_ref.description}]({_ref.url})\n"
ReferenceLine(ref) == <<"- [", ref.description, "](", ref.url, ")", "\n">>

\* The pieces a for loop appends for the entries i.. of a list.
RECURSIVE EmbedsFrom(_, _)
EmbedsFrom(imgs, i) ==
    IF i > Len(imgs) THEN <<>> ELSE ImageEmbed(imgs[i]) \o EmbedsFrom(imgs, i + 1)
RECURSIVE ReferenceLinesFrom(_, _)
ReferenceLinesFrom(refs, i) ==
    IF i > Len(refs) THEN <<>>
    ELSE ReferenceLine(refs[i]) \o ReferenceLinesFrom(refs, i + 1)

\* The whole of lines 260-265 as a function of the ResearchResult.
AssembledDocument(r) ==
    TextStart(r) \o EmbedsFrom(r.images, 1) \o ReferencesHeading
        \o ReferenceLinesFrom(r.references, 1)

InitAssembly ==
    /\ research \in AssemblyInputs
    /\ aPc = <<"start">>
    /\ result_md = <<>>

\* result_md = research_result.full_text + "\n\n"
AssemblyStart ==
    /\ aPc = <<"start">>
    /\ result_md' = TextStart(research)
    /\ aPc' = <<"images", 1>>
    /\ UNCHANGED research
    /\ UNCHANGED <<wfVars, rVars, fVars, cVars, sVars, wVars, gVars>>

\* One pass of `for _img in research_result.images`.
AppendImage ==
    /\ aPc[1] = "images"
    /\ aPc[2] <= Len(research.images)
    /\ result_md' = result_md \o ImageEmbed(research.images[aPc[2]])
    /\ aPc' = <<"images", aPc[2] + 1>>
    /\ UNCHANGED research
    /\ UNCHANGED <<wfVars, rVars, fVars, cVars, sVars, wVars, gVars>>

\* The loop over the images is over: result_md += "\n## References:\n\n"
AppendHeading ==
    /\ aPc[1] = "images"
    /\ aPc[2] > Len(research.images)
    /\ result_md' = result_md \o ReferencesHeading
    /\ aPc' = <<"references", 1>>
    /\ UNCHANGED research
    /\ UNCHANGED <<wfVars, rVars, fVars, cVars, sVars, wVars, gVars>>

\* One pass of `for _ref in research_result.references`.
AppendReference ==
    /\ aPc[1] = "references"
    /\ aPc[2] <= Len(research.references)
    /\ result_md' = result_md \o ReferenceLine(research.references[aPc[2]])
    /\ aPc' = <<"references", aPc[2] + 1>>
    /\ UNCHANGED research
    /\ UNCHANGED <<wfVars, rVars, fVars, cVars, sVars, wVars, gVars>>

\* The loop over the references is over: the document is complete.
AssemblyEnd ==
    /\ aPc[1] = "references"
    /\ aPc[2] > Len(research.references)
    /\ aPc' = <<"done">>
    /\ UNCHANGED <<research, result_md>>
    /\ UNCHANGED <<wfVars, rVars, fVars, cVars, sVars, wVars, gVars>>

NextAssembly ==
    \/ AssemblyStart
    \/ AppendImage
    \/ AppendHeading
    \/ AppendReference
    \/ AssemblyEnd

(***************************************************************************)
(* Tool gating of research_agent in main.py                                *)
(***************************************************************************)
\* Values of RunDeps.search_goal: the sentinel, near misses of it, topics.
Goals ==
    {"HN", "hn", "Hn", "hN", "", " HN", "HN ", "H", "HNHN", "dbt",
     "Hacker News", "search trending stories"}

\* The tools registered with a prepare function.
GatedTools == {"DuckDuckGoSearchTool", "hacker_news_tool"}

\* An agent run in progress whose RunDeps hold any search_goal.
InitGate ==
    /\ rPc = "running"
    /\ rAttempt = 1
    /\ rClient = Some(1)
    /\ rOpen = {1}
    /\ rCreated = 1
    /\ rOutcomes = <<>>
    /\ rResult = None
    /\ rRaised = None
    /\ rSlept = 0
    /\ rGoal \in { Some(g) : g \in Goals }
    /\ rTurns = 0
    /\ rExposed = {}
    /\ gCalls = <<>>

\* The model answers a turn by calling one of the tools that turn offers.
ToolCall ==
    /\ rPc = "running"
    /\ Len(gCalls) < rTurns
    /\ \E t \in rExposed : gCalls' = Append(gCalls, t)
    /\ UNCHANGED rVars
    /\ UNCHANGED <<wfVars, fVars, cVars, sVars, wVars, aVars>>

NextGate ==
    \/ AgentTurn
    \/ ToolCall

(***************************************************************************)
(* Specifications                                                          *)
(***************************************************************************)
\* A component nothing has called yet.
IdleWorkflow == InitWorkflow /\ request_limit = 0
IdleFetch == InitFetch /\ variant = "tools" /\ num_entries = 0 /\ feed = <<>>
IdleCount == InitCount /\ cNum = 0 /\ cFeedLen = 0
IdleSearch == InitSearch /\ sVariant = "tools" /\ sQuery = "dbt" /\ sMaxResults = None
IdleWebpage == InitWebpage /\ wVariant = "tools" /\ wUrl = <<"x", ".", "h", "t", "m">>
IdleAssembly ==
    /\ InitAssembly
    /\ research.full_text = "Body"
    /\ research.images = <<>>
    /\ research.references = <<>>
IdleGate == gCalls = <<>>
IdleTools == IdleCount /\ IdleSearch /\ IdleWebpage /\ IdleAssembly /\ IdleGate

\* GrimaudAgent: one agent object, run_full_workflow called up to MaxRuns times.
Init == InitWorkflow /\ InitRetry /\ IdleFetch /\ IdleTools
Next == NextWorkflow
Spec == Init /\ [][Next]_vars

\* main.py: one call of get_research_result.
InitRetrySpec == IdleWorkflow /\ InitRetry /\ IdleFetch /\ IdleTools
SpecRetry == InitRetrySpec /\ [][NextRetry]_vars

\* One call of the story fetcher, in either variant.
InitFetchSpec == IdleWorkflow /\ InitRetry /\ InitFetch /\ IdleTools
SpecFetch == InitFetchSpec /\ [][NextFetch]_vars

\* The number of detail fetches of one call of the story fetcher.
InitCountSpec ==
    /\ IdleWorkflow /\ InitRetry /\ IdleFetch
    /\ InitCount /\ IdleSearch /\ IdleWebpage /\ IdleAssembly /\ IdleGate
SpecCount == InitCountSpec /\ [][NextCount]_vars

\* One call of the keyword search tool, in either variant.
InitSearchSpec ==
    /\ IdleWorkflow /\ InitRetry /\ IdleFetch
    /\ IdleCount /\ InitSearch /\ IdleWebpage /\ IdleAssembly /\ IdleGate
SpecSearch == InitSearchSpec /\ [][NextSearch]_vars

\* One call of the webpage tool, in either variant.
InitWebpageSpec ==
    /\ IdleWorkflow /\ InitRetry /\ IdleFetch
    /\ IdleCount /\ IdleSearch /\ InitWebpage /\ IdleAssembly /\ IdleGate
SpecWebpage == InitWebpageSpec /\ [][NextWebpage]_vars

\* main.py: the final document is built from one ResearchResult.
InitAssemblySpec ==
    /\ IdleWorkflow /\ InitRetry /\ IdleFetch
    /\ IdleCount /\ IdleSearch /\ IdleWebpage /\ InitAssembly /\ IdleGate
SpecAssembly == InitAssemblySpec /\ [][NextAssembly]_vars

\* main.py: one agent run of research_agent for any search_goal.
InitGateSpec ==
    /\ IdleWorkflow /\ InitGate /\ IdleFetch
    /\ IdleCount /\ IdleSearch /\ IdleWebpage /\ IdleAssembly
SpecGate == InitGateSpec /\ [][NextGate]_vars

(***************************************************************************)
(* Claims about GrimaudAgent.run_full_workflow (specification Spec)        *)
(***************************************************************************)
Invoked(s) == \E i \in DOMAIN invoked : invoked[i] = s

\* The artifact file of stage s of the current run holds the stage's result.
ArtifactWritten(s) ==
    /\ topic # None
    /\ (s = RESEARCH_TOPIC => research_result # None)
    /\ (s = GENERATE_REPORT => markdown_report # None)
    /\ LET name == FileName(s, The(topic).selected_topic.topic, now) IN
         /\ name \in DOMAIN files
         /\ files[name] = StageFileContents(s)

\* C1: a stage method is invoked only once the stage before it has returned
\* its result and save_output has written that result to its artifact file,
\* and the agents of two stages never run at the same time.
C1_StageAfterPersistedPredecessor ==
    /\ Cardinality(running) <= 1
    /\ \A s \in Stages :
         (Invoked(s) /\ s > SELECT_TOPIC) =>
            /\ ArtifactWritten(s - 1)
            /\ (s - 1) \notin running

\* C1 witness: generate_report has been invoked after both earlier stages.
C1_Witness ==
    /\ invoked = <<SELECT_TOPIC, RESEARCH_TOPIC, GENERATE_REPORT>>
    /\ ArtifactWritten(SELECT_TOPIC)
    /\ ArtifactWritten(RESEARCH_TOPIC)

\* C2 (as claimed): a run in which no agent call and no save_output failed
\* reaches DONE with the report file written and its path returned; so a run
\* ends in failure only through a failed agent call or a failed save.
C2_ConformingAgentsReachDone ==
    wfPc = "failed" => failCause \in {"agent", "save"}

\* What holds of every state of a run, for C3.
C3_StateInv ==
    /\ \A s \in Stages : agentRuns[s] <= 1
    /\ \A i \in DOMAIN invoked : invoked[i] = i
    /\ (wfPc = "failed" => running = {})

\* What holds of every step inside one run, for C3.
C3_Step ==
    now' = now =>
        /\ stage' >= stage
        /\ (failCause' = "agent" => wfPc' = "failed")
        /\ (wfPc = "failed" =>
               /\ wfPc' = "failed"
               /\ UNCHANGED <<invoked, agentRuns, running, stage>>)

\* C3: within one run the stage never moves back, every stage's agent is run
\* at most once, a failed agent call ends the run, and once the run has
\* failed no stage is invoked and no agent is run.
C3_ForwardOnly == []C3_StateInv /\ [][C3_Step]_vars

\* C3 witness: the research agent failed after the selector had succeeded.
C3_Witness ==
    /\ wfPc = "failed"
    /\ failCause = "agent"
    /\ stage = RESEARCH_TOPIC
    /\ agentRuns = [s \in Stages |-> IF s = GENERATE_REPORT THEN 0 ELSE 1]

\* Files of the final report written by the current run.
ReportFiles == { n \in DOMAIN files : n.prefix = "markdown_report" /\ n.now = now }

\* What holds of every state of a failed run, for C4.
C4_StateInv ==
    wfPc = "failed" =>
        /\ ReportFiles = {}
        /\ \A j \in Stages : j < stage => ArtifactWritten(j)

\* A step keeps every file already written, with its contents.
C4_FilesKept ==
    \A n \in DOMAIN files : n \in DOMAIN files' /\ files'[n] = files[n]

\* C4: when the run has failed in stage k no final report file of the run
\* exists, the artifact of every stage before k exists with that stage's
\* result, and no step ever removes or changes a file already written.
C4_FailureKeepsArtifacts == []C4_StateInv /\ [][C4_FilesKept]_vars

\* C4 witness: a run failed in stage 3 with both snapshots on disk.
C4_Witness ==
    /\ wfPc = "failed"
    /\ stage = GENERATE_REPORT
    /\ ArtifactWritten(SELECT_TOPIC)
    /\ ArtifactWritten(RESEARCH_TOPIC)
    /\ ReportFiles = {}

\* The request budgets granted so far in this run, added up.
GrantedBudget(s) == IF budget[s] = None THEN 0 ELSE The(budget[s])
TotalGranted ==
    GrantedBudget(SELECT_TOPIC) + GrantedBudget(RESEARCH_TOPIC)
        + GrantedBudget(GENERATE_REPORT)

\* C5 (as claimed): the budgets of the stages divide request_limit, so the
\* budgets granted in one run add up to at most request_limit and the agents
\* of one run make at most request_limit requests.
C5_BudgetsWithinRequestLimit ==
    /\ TotalGranted <= request_limit
    /\ requests <= request_limit

\* C8 (as claimed): once run_full_workflow has ended, by return or by a
\* failure, the agent's HTTP client is closed.
C8_ClientClosedOnEveryExit ==
    wfPc \in {"done", "failed"} => client_is_closed

\* C17 (as claimed): the agent of every running stage has the stated tools:
\* SELECT_TOPIC the trending-story and the keyword search tool,
\* RESEARCH_TOPIC the webpage, the trending-story and the keyword search
\* tool, GENERATE_REPORT none.
C17_StatedToolSets ==
    \A s \in running :
        StageTools(s) =
            CASE s = SELECT_TOPIC -> {"HackerNewsTool", "DuckDuckGoSearchTool"}
              [] s = RESEARCH_TOPIC ->
                    {"WebpageTool", "HackerNewsTool", "DuckDuckGoSearchTool"}
              [] OTHER -> {}

\* C20: over run_full_workflow calls made one after another, the client a
\* stage's agent holds in its RunDeps is the agent object's current client
\* and is open for as long as that agent runs, and the client stays open
\* from the start of stage 1 until the run ends.
C20_ClientOpenWhileStageRuns ==
    /\ \A s \in running :
          StageHasDeps(s) =>
              /\ agentClient[s] = Some(client_id)
              /\ ~client_is_closed
    /\ wfPc \in {"begin", "running", "save"} => ~client_is_closed

\* In the second of two runs the research agent is running with the open
\* client in its RunDeps.
C20_Witness ==
    /\ now = 2
    /\ RESEARCH_TOPIC \in running
    /\ agentClient[RESEARCH_TOPIC] = Some(client_id)
    /\ ~client_is_closed

(***************************************************************************)
(* Claims about get_research_result (specification SpecRetry)              *)
(***************************************************************************)
Last(q) == q[Len(q)]

\* C6: the agent call runs at most 3 times; every attempt but the last one
\* made has failed; the call returns the output of the first attempt that
\* succeeds; it raises only after 3 failed attempts, returning nothing.
C6_AtMostThreeAttempts ==
    /\ rAttempt <= 3
    /\ rCreated <= 3
    /\ Len(rOutcomes) <= 3
    /\ \A i \in 1..(Len(rOutcomes) - 1) : ~rOutcomes[i].ok
    /\ (rOutcomes # <<>> /\ Last(rOutcomes).ok => rPc = "returned")
    /\ (rPc = "returned" => Last(rOutcomes).ok /\ rRaised = None)
    /\ (rPc = "raised" =>
           /\ Len(rOutcomes) = 3
           /\ \A i \in 1..3 : ~rOutcomes[i].ok
           /\ rResult = None
           /\ rRaised = Some(<<"RetryError", Last(rOutcomes).value>>))
    /\ (rOutcomes # <<>> /\ ~Last(rOutcomes).ok /\ Len(rOutcomes) < 3 =>
           rPc \in {"enter", "running"} /\ rAttempt = Len(rOutcomes) + 1)

\* C6 witness: three attempts failed and the failure was raised.
C6_Witness ==
    /\ rPc = "raised"
    /\ Len(rOutcomes) = 3
    /\ rCreated = 3

\* C7: whenever get_research_result returns, after failed attempts or not,
\* the value is the output of the attempt that succeeded, no client is open
\* and nothing of a failed attempt is kept: the state is that of a call that
\* succeeded at once with the same output.
C7_RetriedSuccessLikeImmediate ==
    rPc = "returned" =>
        /\ rResult = Some(Last(rOutcomes).value)
        /\ rOpen = {}
        /\ rClient = None
        /\ rRaised = None

\* C7 witness: two overloaded attempts, then a third that succeeded.
C7_Witness ==
    /\ rPc = "returned"
    /\ Len(rOutcomes) = 3
    /\ rOutcomes[1] = [ok |-> FALSE, value |-> "overloaded"]
    /\ rOutcomes[2] = [ok |-> FALSE, value |-> "overloaded"]
    /\ rOutcomes[3].ok
    /\ rResult = Some(rOutcomes[3].value)

\* C21: every attempt of get_research_result runs with a client of its own,
\* created by that attempt and by no earlier one, and closes it when it
\* ends, by return or by exception: at most one client is open at any
\* time, none between two attempts, and none once the call has returned or
\* raised.
C21_OwnClientPerAttempt ==
    /\ Cardinality(rOpen) <= 1
    /\ rPc = "running" =>
          /\ rCreated = rAttempt
          /\ rClient = Some(rAttempt)
          /\ rOpen = {rAttempt}
    /\ rPc \in {"idle", "enter", "returned", "raised"} =>
          /\ rOpen = {}
          /\ rClient = None
    /\ rCreated = Len(rOutcomes) + (IF rPc = "running" THEN 1 ELSE 0)

\* The second attempt runs, after a failed first one, with the second
\* client, the only one open.
C21_Witness ==
    /\ rPc = "running"
    /\ rAttempt = 2
    /\ Len(rOutcomes) = 1
    /\ ~rOutcomes[1].ok
    /\ rClient = Some(2)
    /\ rOpen = {2}

\* C22: in every attempt of get_research_result the search_goal is "HN",
\* so on every turn of every attempt the trending-story tool is offered and
\* the keyword search tool is not.
C22_AlwaysTrendingStories ==
    /\ rGoal # None => rGoal = Some("HN")
    /\ rPc = "running" => rGoal = Some("HN")
    /\ rTurns > 0 =>
          /\ "hacker_news_tool" \in rExposed
          /\ "DuckDuckGoSearchTool" \notin rExposed

\* The third attempt, after two failed ones, is in its second turn and is
\* offered the trending-story tool.
C22_Witness ==
    /\ rPc = "running"
    /\ rAttempt = 3
    /\ rTurns >= 2
    /\ rExposed = {"visit_webpage_tool", "hacker_news_tool"}

(***************************************************************************)
(* Claims about the story fetcher (specification SpecFetch)                *)
(***************************************************************************)
\* The first n elements of a sequence (none for n <= 0).
FirstN(seq, n) == SubSeq(seq, 1, Min(Max(n, 0), Len(seq)))

\* The stories of the ids at positions i.. of `ids` whose detail fetch
\* answered 2xx with a valid story, in the order of `ids`.
RECURSIVE ResolvedStories(_, _)
ResolvedStories(ids, i) ==
    IF i > Len(ids) THEN <<>>
    ELSE IF i \in DOMAIN tasks /\ tasks[i].outcome = "ok_story"
         THEN <<Story(ids[i])>> \o ResolvedStories(ids, i + 1)
         ELSE ResolvedStories(ids, i + 1)

\* C9 (as claimed): a call that returns after a successful index fetch
\* returns exactly the stories of the first min(num_entries, 500) feed ids
\* whose detail fetch succeeded and validated, in feed order, and no more
\* entries than were requested or than the feed holds.
C9_ExactlyResolvedStoriesInFeedOrder ==
    (fPc = "returned" /\ indexOutcome = "ok") =>
        /\ The(stories) = ResolvedStories(FirstN(feed, Min(num_entries, MaxEntries)), 1)
        /\ Len(The(stories)) <= Max(num_entries, 0)
        /\ Len(The(stories)) <= Len(feed)

\* C10 (as claimed): once the feed index has been fetched, no failure of a
\* detail fetch makes the call fail.
C10_DetailFailureNeverFailsCall ==
    indexOutcome = "ok" => fPc # "raised"

\* C18: the detail fetches of all selected ids are in flight together and
\* the call ends only once none of them is pending: whatever the order in
\* which they complete, no call has returned or raised with a fetch still
\* pending, a returned call has every task done, and no result exists
\* while the call still waits.
C18_JoinAllBarrier ==
    /\ fPc \in {"returned", "raised"} => TasksIn("pending") = {}
    /\ (fPc = "returned" /\ indexOutcome = "ok") =>
          /\ Len(tasks) = Len(stories_ids)
          /\ \A i \in DOMAIN tasks : tasks[i].state = "done"
    /\ fPc = "gather" =>
          /\ stories = None
          /\ Len(tasks) = Len(stories_ids)
          /\ requested = Len(stories_ids)

\* A call over at least two ids has returned after a later task settled
\* before an earlier one.
C18_Witness ==
    /\ fPc = "returned"
    /\ indexOutcome = "ok"
    /\ Len(tasks) >= 2
    /\ outOfOrder
    /\ TasksIn("done") = DOMAIN tasks

\* C19: when the feed-index fetch fails with a connection error or a non-2xx
\* status, HackerNewsTool.execute has returned an empty list, without
\* raising and without any detail fetch, and main.py's hacker_news_tool
\* has raised and returned no list.
C19_IndexFailureByVariant ==
    indexOutcome \in {"request_error", "status_error"} =>
        /\ variant = "tools" =>
              /\ fPc = "returned"
              /\ stories = Some(<<>>)
              /\ requested = 0
              /\ tasks = <<>>
        /\ variant = "main" =>
              /\ fPc = "raised"
              /\ stories = None

\* HackerNewsTool.execute has returned after a non-2xx answer of the index.
C19_Witness ==
    /\ variant = "tools"
    /\ indexOutcome = "status_error"
    /\ fPc = "returned"
    /\ stories = Some(<<>>)

(***************************************************************************)
(* Claims about the number of detail fetches (specification SpecCount)     *)
(***************************************************************************)
\* C11 (as claimed): for every num_entries and every feed length, neither the
\* number of detail fetches issued nor the length of the returned list
\* exceeds the ceiling of 500.
C11_NeverAboveCeiling ==
    /\ cFetches <= MaxEntries
    /\ cReturned <= MaxEntries

(***************************************************************************)
(* Claims about the keyword search (specification SpecSearch)              *)
(***************************************************************************)
\* C12: when the provider answers with an empty list the search call raises
\* and returns no list; when it answers with a non-empty list the call
\* returns exactly those hits; an empty list is never returned.
C12_EmptyListFails ==
    (sPc = "done" /\ sResults # None) =>
        /\ Len(The(sResults)) = 0 => sOut[1] = "raise"
        /\ Len(The(sResults)) > 0 =>
              (sOut[1] = "return" /\ sOut[2] = The(sResults))
        /\ ~(sOut[1] = "return" /\ Len(sOut[2]) = 0)

\* A call has ended on an empty list of the provider, by raising.
C12_Witness ==
    /\ sPc = "done"
    /\ sResults = Some(<<>>)
    /\ sOut[1] = "raise"

(***************************************************************************)
(* Claims about the webpage fetch (specification SpecWebpage)              *)
(***************************************************************************)
\* C13 (as claimed): for a URL ending in ".pdf" in any letter case, every
\* webpage fetch of the repository issues no GET on the client and ends with
\* the fixed rejection message.
C13_PdfNeverRequested ==
    IsPdfUrl(wUrl) =>
        /\ wGets = 0
        /\ wPc = "done" => wOut = PdfRejection

\* C14: the webpage fetch never raises: every call that has ended, whatever
\* the URL and whatever failed during the fetch or the conversion, has ended
\* by returning a string.
C14_AlwaysReturnsString ==
    wPc = "done" =>
        /\ wOut[1] = "return"
        /\ wOut[2] \in Seq(STRING)

\* A call has ended after a non-2xx status, by returning the error message.
C14_Witness ==
    /\ wPc = "done"
    /\ wFetch # None
    /\ The(wFetch).kind = "status_error"
    /\ wOut[1] = "return"
    /\ Len(wOut[2]) > 0

(***************************************************************************)
(* Claims about the tool gating (specification SpecGate)                   *)
(***************************************************************************)
\* C15: for every search_goal, a turn of the agent run offers exactly one of
\* the two gated tools: the trending-story tool if and only if the goal is
\* "HN", the keyword search tool if and only if it is not; and the model
\* never calls the gated tool that is hidden.
C15_ExactlyOneGatedTool ==
    (rPc = "running" /\ rTurns > 0) =>
        /\ Cardinality(rExposed \cap GatedTools) = 1
        /\ ("hacker_news_tool" \in rExposed) <=> (The(rGoal) = "HN")
        /\ ("DuckDuckGoSearchTool" \in rExposed) <=> (The(rGoal) # "HN")
        /\ \A i \in DOMAIN gCalls :
              /\ gCalls[i] = "hacker_news_tool" => The(rGoal) = "HN"
              /\ gCalls[i] = "DuckDuckGoSearchTool" => The(rGoal) # "HN"

\* A run whose goal differs from the sentinel only by letter case has been
\* offered the keyword search tool and has called it.
C15_Witness ==
    /\ rPc = "running"
    /\ rGoal = Some("hn")
    /\ rExposed \cap GatedTools = {"DuckDuckGoSearchTool"}
    /\ Len(gCalls) > 0
    /\ gCalls[1] = "DuckDuckGoSearchTool"

(***************************************************************************)
(* Claims about the output assembly (specification SpecAssembly)           *)
(***************************************************************************)
\* The lines of a text: the runs of pieces between its line breaks.
RECURSIVE SplitFrom(_, _)
SplitFrom(t, cur) ==
    IF t = <<>> THEN <<cur>>
    ELSE IF Head(t) = "\n" THEN <<cur>> \o SplitFrom(Tail(t), <<>>)
         ELSE SplitFrom(Tail(t), Append(cur, Head(t)))
SplitLines(t) == SplitFrom(t, <<>>)

\* The lines the document is stated to have: the text, a blank line, one
\* embed per image, a blank line, the heading, a blank line, one link per
\* reference (and nothing after the last line break).
ExpectedLines(r) ==
    <<<<r.full_text>>, <<>>>>
        \o [i \in 1..Len(r.images) |->
              <<"![", r.images[i].description, "](", r.images[i].url, ")">>]
        \o <<<<>>, <<"## References:">>, <<>>>>
        \o [i \in 1..Len(r.references) |->
              <<"- [", r.references[i].description, "](",
                r.references[i].url, ")">>]
        \o <<<<>>>>

\* The orders of n list entries.
Perms(n) == { p \in [1..n -> 1..n] : \A i, j \in 1..n : p[i] = p[j] => i = j }

\* The ResearchResult with its images in the order p.
Reordered(r, p) == [r EXCEPT !.images = [i \in 1..Len(r.images) |-> r.images[p[i]]]]

\* C16: the finished document is a function of the ResearchResult; its lines
\* are the text, a blank line, one image embed per image in list order, a
\* blank line, the heading "## References:", a blank line and one link line
\* per reference in list order, for zero or more images and references; and
\* the document of the same result with its images in another order has the
\* same embeds in that order and the same lines everywhere else.
C16_DocumentStructure ==
    aPc[1] = "done" =>
        LET n == Len(research.images)
            lines == SplitLines(result_md)
        IN  /\ result_md = AssembledDocument(research)
            /\ lines = ExpectedLines(research)
            /\ \A p \in Perms(n) :
                 LET other == SplitLines(AssembledDocument(Reordered(research, p)))
                 IN  /\ Len(other) = Len(lines)
                     /\ SubSeq(other, 1, 2) = SubSeq(lines, 1, 2)
                     /\ \A i \in 1..n : other[2 + i] = lines[2 + p[i]]
                     /\ SubSeq(other, n + 3, Len(other))
                          = SubSeq(lines, n + 3, Len(lines))

\* The document of text "Body", the two images in the order Fig2, Fig1 and
\* the one reference Src is finished.
C16_Witness ==
    /\ aPc[1] = "done"
    /\ research.full_text = "Body"
    /\ Len(research.images) = 2
    /\ research.images[1].description = "Fig2"
    /\ research.images[2].description = "Fig1"
    /\ Len(research.references) = 1
    /\ result_md =
         <<"Body", "\n", "\n",
           "![", "Fig2", "](", "http://x/g.png", ")", "\n",
           "![", "Fig1", "](", "http://x/f.png", ")", "\n",
           "\n", "## References:", "\n", "\n",
           "- [", research.references[1].description, "](",
           research.references[1].url, ")", "\n">>
====
